---- MODULE Spec2Model ----
(***************************************************************************)
(* Model of the hodlwarz_combat program                                    *)
(* (programs/hodlwarz_combat/src/lib.rs): the progression curve, the       *)
(* talent tables, the damage engine, and the instruction handlers that     *)
(* mutate PlayerState and Arena accounts.                                  *)
(*                                                                         *)
(* Conventions                                                             *)
(*  - every handler is a pure operator from the accounts it receives to    *)
(*    the accounts it leaves and an error code ("Ok" on success);          *)
(*  - u16 and u8 fields keep their width: `as u16` truncates modulo 2^16;   *)
(*    a `+=` whose sum does not fit aborts the instruction when the        *)
(*    program is built with overflow checks (the runtime rolls it back)    *)
(*    and wraps when it is built without; the build profile is not part    *)
(*    of the sources, so overflow_checks is either, fixed for a run;       *)
(*  - the u64 counters (xp, kills, deaths, total_kills) stay far below     *)
(*    their width in every run considered;                                 *)
(*  - an attack names two distinct accounts;                               *)
(*  - the 25 talent_* fields of PlayerState are the function `talents`,    *)
(*    indexed by the slot number that get_talent/set_talent use;           *)
(*  - `curve` holds one evaluation of the progression curve on its own:    *)
(*    an experience value, then its level, then the level's talent points; *)
(*    it is idle while instructions run;                                   *)
(*  - `hit` holds one evaluation of compute_hit_damage on its own: an      *)
(*    attacker and a victim record, then the damage of one hit.            *)
(***************************************************************************)
EXTENDS Integers, Sequences, FiniteSets, Bags, TLC

VARIABLES players, acct_len, arena, now, overflow_checks, result, steps, curve, hit

vars == <<players, acct_len, arena, now, overflow_checks, result, steps, curve, hit>>

(***************************************************************************)
(* Program constants                                                       *)
(***************************************************************************)
BASE_HEALTH == 100
BASE_ATTACK == 10
LEVEL_SCALE == 10
MAX_LEVEL == 100
RESPAWN_DELAY_SECS == 5
DAMAGE_CAP == 500
XP_PER_KILL_BASE == 10
XP_PER_KILL_PER_LEVEL == 3
XP_PER_DEATH == 5
MAX_TALENT_RANK_TIER1_4 == 5
MAX_TALENT_RANK_CAPSTONE == 3
MAX_HIT_COUNT == 500
U16_MAX == 65535
U8_MAX == 255
BPS == 10000
TARGET_LEN == 8 + 32 + 2 + 2 + 2 + 8 + 8 + 8 + 1 + 1 + 1 + 8 + 1 + 25 + 1
LEGACY_LEN == 8 + 32 + 2 + 2 + 2 + 8 + 8 + 8 + 1 + 1 + 1 + 8 + 1
EXPECTED_DISC == <<56, 3, 60, 86, 174, 16, 244, 195>>

Slots == 0..24
capstones == {4, 9, 14, 17, 24}

Min(a, b) == IF a < b THEN a ELSE b
Max(a, b) == IF a > b THEN a ELSE b

(***************************************************************************)
(* Talent tables                                                           *)
(***************************************************************************)
ARMOR_BPS == <<400, 800, 1200, 1600, 2400>>
HEAVY_HITTER_BPS == <<400, 800, 1200, 1600, 2400>>
CRIT_EXPECTED_BPS == <<700, 1680, 3360, 5040, 7000>>
EXECUTE_BPS == <<800, 1600, 2400, 3200, 4800>>
VITALITY_STRIKE_BPS == <<25, 40, 60>>
BERSERKER_DMG_BPS == <<2500, 4000, 5500>>
EXPERIENCE_BPS == <<1000, 1700, 2400, 3200, 4000>>
IRON_SKIN_BPS == <<1000, 1500, 2000, 2500, 3000>>

\* fault: the capstone arm of the match is missing
max_rank_uniform(talent_id) ==
    IF talent_id \in Slots THEN MAX_TALENT_RANK_TIER1_4 ELSE 0

max_rank_for_talent(talent_id) ==
    IF talent_id \in capstones THEN MAX_TALENT_RANK_CAPSTONE
    ELSE IF talent_id \in Slots THEN MAX_TALENT_RANK_TIER1_4
    ELSE 0

lookup_bps(rank, table) ==
    IF rank = 0 \/ rank > Len(table) THEN 0 ELSE table[rank]

\* None is modelled as -1
NoPrereq == -1

\* fault: every tree taken in slot order
talent_prerequisite_uniform(talent_id) ==
    IF talent_id \in 0..24 /\ talent_id % 5 # 0 THEN talent_id - 1 ELSE NoPrereq

talent_prerequisite(talent_id) ==
    CASE talent_id \in {0, 5, 10, 15, 20} -> NoPrereq
      [] talent_id \in {1, 2, 3, 4} -> talent_id - 1
      [] talent_id \in {6, 7, 8, 9} -> talent_id - 1
      [] talent_id \in {11, 12, 13, 14} -> talent_id - 1
      [] talent_id = 16 -> 15
      [] talent_id = 19 -> 16
      [] talent_id = 18 -> 19
      [] talent_id = 17 -> 18
      [] talent_id \in {21, 22, 23, 24} -> talent_id - 1
      [] OTHER -> NoPrereq

(***************************************************************************)
(* Progression curve                                                       *)
(***************************************************************************)
\* fault: no surcharge above level 50
level_cost_unscaled(lvl) == (2 * lvl - 1) * LEVEL_SCALE

level_cost(lvl) ==
    LET base_cost == (2 * lvl - 1) * LEVEL_SCALE
    IN IF lvl > 50 THEN (base_cost * (BPS + (lvl - 50) * 100)) \div BPS
       ELSE base_cost

\* total_xp after the iteration for lvl: the costs of levels 1..lvl added up
\* (the cardinality of a bag is the sum of its counts; @@ makes the table an
\* explicit one, computed once)
total_xp_after ==
    [lvl \in 1..(MAX_LEVEL - 1) |-> BagCardinality([l \in 1..lvl |-> level_cost(l)])]
      @@ <<>>

\* fault: the loop run to its end returns 0
calc_level_falls_off(xp) ==
    IF \A lvl \in 1..(MAX_LEVEL - 1) : ~(xp < total_xp_after[lvl]) THEN 0
    ELSE CHOOSE lvl \in 1..(MAX_LEVEL - 1) :
             /\ xp < total_xp_after[lvl]
             /\ \A earlier \in 1..(lvl - 1) : ~(xp < total_xp_after[earlier])

\* the loop returns at the first lvl of 1..MAX_LEVEL-1 whose running total
\* exceeds xp, and MAX_LEVEL is returned when it runs to its end
calc_level(xp) ==
    CHOOSE lvl \in 1..MAX_LEVEL :
        /\ lvl = MAX_LEVEL \/ xp < total_xp_after[lvl]
        /\ \A earlier \in 1..(lvl - 1) : ~(xp < total_xp_after[earlier])

\* fault: the thresholds are the even levels
calc_talent_points_even(level) ==
    Cardinality({i \in 0..49 : level >= 2 + 2 * i})

\* fault: the first threshold is level 3
calc_talent_points_from_three(level) ==
    Cardinality({i \in 0..49 : level >= 3 + 2 * i})

\* the loop runs i = 0..49 with threshold 1 + 2 * i in iteration i, and adds a
\* point in every iteration whose threshold the level has reached
calc_talent_points(level) ==
    Cardinality({i \in 0..49 : level >= 1 + 2 * i})

(***************************************************************************)
(* Accounts                                                                *)
(***************************************************************************)
Players == {1, 2}

\* An account that register_player has not written yet: every field zero.
ZeroPlayer ==
    [wallet |-> 0, health |-> 0, max_health |-> 0, attack_power |-> 0,
     xp |-> 0, kills |-> 0, deaths |-> 0, health_level |-> 0, attack_level |-> 0,
     is_alive |-> FALSE, respawn_at |-> 0, initialized |-> FALSE,
     talents |-> [s \in Slots |-> 0], manual_build |-> FALSE]

ZeroArena == [authority |-> 0, player_count |-> 0, total_kills |-> 0, is_active |-> FALSE]

get_talent(player, id) == IF id \in Slots THEN player.talents[id] ELSE 0

\* fault: the Heavy Hitter talent (slot 5) is written to slot 1
set_talent_crossed(player, id, val) ==
    IF id = 5 THEN [player EXCEPT !.talents[1] = val]
    ELSE IF id \in Slots THEN [player EXCEPT !.talents[id] = val]
    ELSE player

set_talent(player, id, val) ==
    IF id \in Slots THEN [player EXCEPT !.talents[id] = val] ELSE player

total_talent_points_spent(player) ==
    LET t == player.talents
    IN t[0] + t[1] + t[2] + t[3] + t[4] + t[5] + t[6] + t[7] + t[8] + t[9]
         + t[10] + t[11] + t[12] + t[13] + t[14] + t[15] + t[16] + t[17]
         + t[18] + t[19] + t[20] + t[21] + t[22] + t[23] + t[24]

effective_max_health(player) ==
    LET base == player.max_health
        iron_skin_bonus == lookup_bps(player.talents[1], IRON_SKIN_BPS)
    IN (base * (BPS + iron_skin_bonus)) \div BPS

(***************************************************************************)
(* Damage engine                                                           *)
(***************************************************************************)
\* fault: the cap is applied after the critical-strike and execute stages
compute_hit_damage_cap_last(attacker, victim) ==
    LET d0 == attacker.attack_power
        hh == lookup_bps(attacker.talents[5], HEAVY_HITTER_BPS)
        d1 == IF hh > 0 THEN (d0 * (BPS + hh)) \div BPS ELSE d0
        eff_max == effective_max_health(attacker)
        threshold == (eff_max * 3300) \div BPS
        bonus == lookup_bps(attacker.talents[24], BERSERKER_DMG_BPS)
        d2 == IF attacker.talents[24] > 0 /\ attacker.health <= threshold
              THEN (d1 * (BPS + bonus)) \div BPS ELSE d1
        vs == lookup_bps(attacker.talents[4], VITALITY_STRIKE_BPS)
        d3 == IF attacker.talents[4] > 0 THEN d2 + (eff_max * vs) \div BPS ELSE d2
        d4 == d3
        crit_ev == lookup_bps(attacker.talents[7], CRIT_EXPECTED_BPS)
        d5 == IF attacker.talents[7] > 0 THEN (d4 * (BPS + crit_ev)) \div BPS ELSE d4
        victim_eff_max == effective_max_health(victim)
        exec == lookup_bps(attacker.talents[21], EXECUTE_BPS)
        d6 == IF attacker.talents[21] > 0 /\ victim.health * 2 <= victim_eff_max
              THEN (d5 * (BPS + exec)) \div BPS ELSE d5
        armor == lookup_bps(victim.talents[0], ARMOR_BPS)
        capped == Min(d6, DAMAGE_CAP)
        d7 == IF victim.talents[0] > 0
              THEN (capped * (BPS - Min(armor, 9999))) \div BPS ELSE capped
    IN Max(d7, 1) % (U16_MAX + 1)

\* fault: a hit may deal nothing
compute_hit_damage_no_floor(attacker, victim) ==
    LET d0 == attacker.attack_power
        hh == lookup_bps(attacker.talents[5], HEAVY_HITTER_BPS)
        d1 == IF hh > 0 THEN (d0 * (BPS + hh)) \div BPS ELSE d0
        eff_max == effective_max_health(attacker)
        threshold == (eff_max * 3300) \div BPS
        bonus == lookup_bps(attacker.talents[24], BERSERKER_DMG_BPS)
        d2 == IF attacker.talents[24] > 0 /\ attacker.health <= threshold
              THEN (d1 * (BPS + bonus)) \div BPS ELSE d1
        vs == lookup_bps(attacker.talents[4], VITALITY_STRIKE_BPS)
        d3 == IF attacker.talents[4] > 0 THEN d2 + (eff_max * vs) \div BPS ELSE d2
        d4 == Min(d3, DAMAGE_CAP)
        crit_ev == lookup_bps(attacker.talents[7], CRIT_EXPECTED_BPS)
        d5 == IF attacker.talents[7] > 0 THEN (d4 * (BPS + crit_ev)) \div BPS ELSE d4
        victim_eff_max == effective_max_health(victim)
        exec == lookup_bps(attacker.talents[21], EXECUTE_BPS)
        d6 == IF attacker.talents[21] > 0 /\ victim.health * 2 <= victim_eff_max
              THEN (d5 * (BPS + exec)) \div BPS ELSE d5
        armor == lookup_bps(victim.talents[0], ARMOR_BPS)
        d7 == IF victim.talents[0] > 0
              THEN (d6 * (BPS - Min(armor, 9999))) \div BPS ELSE d6
    IN d7 % (U16_MAX + 1)

compute_hit_damage(attacker, victim) ==
    LET d0 == attacker.attack_power
        hh == lookup_bps(attacker.talents[5], HEAVY_HITTER_BPS)
        d1 == IF hh > 0 THEN (d0 * (BPS + hh)) \div BPS ELSE d0
        eff_max == effective_max_health(attacker)
        threshold == (eff_max * 3300) \div BPS
        bonus == lookup_bps(attacker.talents[24], BERSERKER_DMG_BPS)
        d2 == IF attacker.talents[24] > 0 /\ attacker.health <= threshold
              THEN (d1 * (BPS + bonus)) \div BPS ELSE d1
        vs == lookup_bps(attacker.talents[4], VITALITY_STRIKE_BPS)
        d3 == IF attacker.talents[4] > 0 THEN d2 + (eff_max * vs) \div BPS ELSE d2
        d4 == Min(d3, DAMAGE_CAP)
        crit_ev == lookup_bps(attacker.talents[7], CRIT_EXPECTED_BPS)
        d5 == IF attacker.talents[7] > 0 THEN (d4 * (BPS + crit_ev)) \div BPS ELSE d4
        victim_eff_max == effective_max_health(victim)
        exec == lookup_bps(attacker.talents[21], EXECUTE_BPS)
        d6 == IF attacker.talents[21] > 0 /\ victim.health * 2 <= victim_eff_max
              THEN (d5 * (BPS + exec)) \div BPS ELSE d5
        armor == lookup_bps(victim.talents[0], ARMOR_BPS)
        d7 == IF victim.talents[0] > 0
              THEN (d6 * (BPS - Min(armor, 9999))) \div BPS ELSE d6
    IN Max(d7, 1) % (U16_MAX + 1)

(***************************************************************************)
(* Instruction handlers.  Each returns [pl, ar, len, err]: the player      *)
(* accounts, the arena, the account lengths and the error code ("Ok" on    *)
(* success).  Err is a require! that fails: the handler returns with the   *)
(* accounts as they are at that point.  Abort is an arithmetic overflow:   *)
(* the instruction is rolled back to the accounts it was given.            *)
(***************************************************************************)
Ret(pl, ar, len, err) == [pl |-> pl, ar |-> ar, len |-> len, err |-> err]

Err(pl, ar, len, e) == Ret(pl, ar, len, e)

Abort(pl, ar, len) == Ret(pl, ar, len, "Panic")

\* Account<'info, PlayerState>: the account must hold a whole PlayerState.
Loads(len, p) == len[p] >= TARGET_LEN

init_arena(pl, ar, len, authority) ==
    IF ar.is_active \/ ar.authority # 0 THEN Err(pl, ar, len, "AccountInUse")
    ELSE Ret(pl, [authority |-> authority, player_count |-> 0,
                  total_kills |-> 0, is_active |-> TRUE], len, "Ok")

register_player(pl, ar, len, p, wallet) ==
    IF pl[p].initialized THEN Err(pl, ar, len, "AccountInUse")
    ELSE Ret([pl EXCEPT ![p] =
                [wallet |-> wallet, health |-> BASE_HEALTH, max_health |-> BASE_HEALTH,
                 attack_power |-> BASE_ATTACK, xp |-> 0, kills |-> 0, deaths |-> 0,
                 health_level |-> 1, attack_level |-> 1, is_alive |-> TRUE,
                 respawn_at |-> 0, initialized |-> TRUE,
                 talents |-> [s \in Slots |-> 0], manual_build |-> FALSE]],
             ar, [len EXCEPT ![p] = TARGET_LEN], "Ok")

\* fault: an empty volley is accepted
valid_hit_count_from_zero(hit_count) == hit_count >= 0 /\ hit_count <= MAX_HIT_COUNT

valid_hit_count(hit_count) == hit_count > 0 /\ hit_count <= MAX_HIT_COUNT

\* fault: the bounty is applied after the experience talent
kill_xp_bounty_last(victim_level, exp_bonus) ==
    LET base == XP_PER_KILL_BASE + Max(victim_level - 1, 0) * XP_PER_KILL_PER_LEVEL
        scaled == IF exp_bonus > 0 THEN (base * (BPS + exp_bonus)) \div BPS ELSE base
    IN IF victim_level >= 50 THEN scaled * 2 ELSE scaled

\* the experience of a kill: the `kill_xp` of process_attack
kill_xp(victim_level, exp_bonus) ==
    LET base == XP_PER_KILL_BASE + Max(victim_level - 1, 0) * XP_PER_KILL_PER_LEVEL
        bounty == IF victim_level >= 50 THEN base * 2 ELSE base
    IN IF exp_bonus > 0 THEN (bounty * (BPS + exp_bonus)) \div BPS ELSE bounty

\* fault: a volley that takes exactly the health left does not kill
lethal_strict(health, total_damage) == health < total_damage

lethal(health, total_damage) == health <= total_damage

\* fault: a hit that does not kill earns experience
process_attack_hit_scores(pl, ar, len, clock, a, v, hit_count) ==
    LET attacker == pl[a]
        victim == pl[v]
        damage_per_hit == compute_hit_damage(attacker, victim)
        total_damage == Min(damage_per_hit * hit_count, U16_MAX)
        dead == [victim EXCEPT !.health = 0, !.is_alive = FALSE, !.deaths = @ + 1,
                               !.xp = @ + XP_PER_DEATH,
                               !.respawn_at = clock + RESPAWN_DELAY_SECS]
        victim_level == calc_level(Max(dead.xp - XP_PER_DEATH, 0))
        exp_bonus == lookup_bps(attacker.talents[20], EXPERIENCE_BPS)
        gained == kill_xp(victim_level, exp_bonus)
        new_level == calc_level(attacker.xp + gained)
        killer == [attacker EXCEPT !.kills = @ + 1, !.xp = @ + gained,
                                   !.health_level = new_level,
                                   !.attack_level = new_level]
    IN IF ~Loads(len, a) \/ ~Loads(len, v) THEN Err(pl, ar, len, "AccountDidNotDeserialize")
       ELSE IF ~attacker.initialized THEN Err(pl, ar, len, "NotInitialized")
       ELSE IF ~victim.initialized THEN Err(pl, ar, len, "NotInitialized")
       ELSE IF ~attacker.is_alive THEN Err(pl, ar, len, "AttackerDead")
       ELSE IF ~victim.is_alive THEN Err(pl, ar, len, "VictimDead")
       ELSE IF ~ar.is_active THEN Err(pl, ar, len, "ArenaInactive")
       ELSE IF ~valid_hit_count(hit_count) THEN Err(pl, ar, len, "InvalidHitCount")
       ELSE IF lethal(victim.health, total_damage)
            THEN Ret([pl EXCEPT ![v] = dead, ![a] = killer],
                     [ar EXCEPT !.total_kills = @ + 1], len, "Ok")
       ELSE Ret([pl EXCEPT ![v].health = @ - total_damage, ![a].xp = @ + 1],
                ar, len, "Ok")

\* fault: a kill leaves the purchased tiers
process_attack_keeps_tiers(pl, ar, len, clock, a, v, hit_count) ==
    LET attacker == pl[a]
        victim == pl[v]
        damage_per_hit == compute_hit_damage(attacker, victim)
        total_damage == Min(damage_per_hit * hit_count, U16_MAX)
        dead == [victim EXCEPT !.health = 0, !.is_alive = FALSE, !.deaths = @ + 1,
                               !.xp = @ + XP_PER_DEATH,
                               !.respawn_at = clock + RESPAWN_DELAY_SECS]
        victim_level == calc_level(Max(dead.xp - XP_PER_DEATH, 0))
        exp_bonus == lookup_bps(attacker.talents[20], EXPERIENCE_BPS)
        gained == kill_xp(victim_level, exp_bonus)
        new_level == calc_level(attacker.xp + gained)
        killer == [attacker EXCEPT !.kills = @ + 1, !.xp = @ + gained]
    IN IF ~Loads(len, a) \/ ~Loads(len, v) THEN Err(pl, ar, len, "AccountDidNotDeserialize")
       ELSE IF ~attacker.initialized THEN Err(pl, ar, len, "NotInitialized")
       ELSE IF ~victim.initialized THEN Err(pl, ar, len, "NotInitialized")
       ELSE IF ~attacker.is_alive THEN Err(pl, ar, len, "AttackerDead")
       ELSE IF ~victim.is_alive THEN Err(pl, ar, len, "VictimDead")
       ELSE IF ~ar.is_active THEN Err(pl, ar, len, "ArenaInactive")
       ELSE IF ~valid_hit_count(hit_count) THEN Err(pl, ar, len, "InvalidHitCount")
       ELSE IF lethal(victim.health, total_damage)
            THEN Ret([pl EXCEPT ![v] = dead, ![a] = killer],
                     [ar EXCEPT !.total_kills = @ + 1], len, "Ok")
       ELSE Ret([pl EXCEPT ![v].health = @ - total_damage], ar, len, "Ok")

\* fault: the arena does not count the kill
process_attack_uncounted(pl, ar, len, clock, a, v, hit_count) ==
    LET attacker == pl[a]
        victim == pl[v]
        damage_per_hit == compute_hit_damage(attacker, victim)
        total_damage == Min(damage_per_hit * hit_count, U16_MAX)
        dead == [victim EXCEPT !.health = 0, !.is_alive = FALSE, !.deaths = @ + 1,
                               !.xp = @ + XP_PER_DEATH,
                               !.respawn_at = clock + RESPAWN_DELAY_SECS]
        victim_level == calc_level(Max(dead.xp - XP_PER_DEATH, 0))
        exp_bonus == lookup_bps(attacker.talents[20], EXPERIENCE_BPS)
        gained == kill_xp(victim_level, exp_bonus)
        new_level == calc_level(attacker.xp + gained)
        killer == [attacker EXCEPT !.kills = @ + 1, !.xp = @ + gained,
                                   !.health_level = new_level,
                                   !.attack_level = new_level]
    IN IF ~Loads(len, a) \/ ~Loads(len, v) THEN Err(pl, ar, len, "AccountDidNotDeserialize")
       ELSE IF ~attacker.initialized THEN Err(pl, ar, len, "NotInitialized")
       ELSE IF ~victim.initialized THEN Err(pl, ar, len, "NotInitialized")
       ELSE IF ~attacker.is_alive THEN Err(pl, ar, len, "AttackerDead")
       ELSE IF ~victim.is_alive THEN Err(pl, ar, len, "VictimDead")
       ELSE IF ~ar.is_active THEN Err(pl, ar, len, "ArenaInactive")
       ELSE IF ~valid_hit_count(hit_count) THEN Err(pl, ar, len, "InvalidHitCount")
       ELSE IF lethal(victim.health, total_damage)
            THEN Ret([pl EXCEPT ![v] = dead, ![a] = killer],
                     ar, len, "Ok")
       ELSE Ret([pl EXCEPT ![v].health = @ - total_damage], ar, len, "Ok")

process_attack(pl, ar, len, clock, a, v, hit_count) ==
    LET attacker == pl[a]
        victim == pl[v]
        damage_per_hit == compute_hit_damage(attacker, victim)
        total_damage == Min(damage_per_hit * hit_count, U16_MAX)
        dead == [victim EXCEPT !.health = 0, !.is_alive = FALSE, !.deaths = @ + 1,
                               !.xp = @ + XP_PER_DEATH,
                               !.respawn_at = clock + RESPAWN_DELAY_SECS]
        victim_level == calc_level(Max(dead.xp - XP_PER_DEATH, 0))
        exp_bonus == lookup_bps(attacker.talents[20], EXPERIENCE_BPS)
        gained == kill_xp(victim_level, exp_bonus)
        new_level == calc_level(attacker.xp + gained)
        killer == [attacker EXCEPT !.kills = @ + 1, !.xp = @ + gained,
                                   !.health_level = new_level,
                                   !.attack_level = new_level]
    IN IF ~Loads(len, a) \/ ~Loads(len, v) THEN Err(pl, ar, len, "AccountDidNotDeserialize")
       ELSE IF ~attacker.initialized THEN Err(pl, ar, len, "NotInitialized")
       ELSE IF ~victim.initialized THEN Err(pl, ar, len, "NotInitialized")
       ELSE IF ~attacker.is_alive THEN Err(pl, ar, len, "AttackerDead")
       ELSE IF ~victim.is_alive THEN Err(pl, ar, len, "VictimDead")
       ELSE IF ~ar.is_active THEN Err(pl, ar, len, "ArenaInactive")
       ELSE IF ~valid_hit_count(hit_count) THEN Err(pl, ar, len, "InvalidHitCount")
       ELSE IF lethal(victim.health, total_damage)
            THEN Ret([pl EXCEPT ![v] = dead, ![a] = killer],
                     [ar EXCEPT !.total_kills = @ + 1], len, "Ok")
       ELSE Ret([pl EXCEPT ![v].health = @ - total_damage], ar, len, "Ok")

\* fault: no cooldown
respawn_player_at_once(pl, ar, len, clock, p) ==
    LET player == pl[p]
        eff_max == effective_max_health(player) % (U16_MAX + 1)
    IN IF ~Loads(len, p) THEN Err(pl, ar, len, "AccountDidNotDeserialize")
       ELSE IF ~player.initialized THEN Err(pl, ar, len, "NotInitialized")
       ELSE IF player.is_alive THEN Err(pl, ar, len, "AlreadyAlive")
       ELSE Ret([pl EXCEPT ![p] = [player EXCEPT !.health = eff_max,
                                                 !.max_health = eff_max,
                                                 !.is_alive = TRUE,
                                                 !.respawn_at = 0]],
                ar, len, "Ok")

respawn_player(pl, ar, len, clock, p) ==
    LET player == pl[p]
        eff_max == effective_max_health(player) % (U16_MAX + 1)
    IN IF ~Loads(len, p) THEN Err(pl, ar, len, "AccountDidNotDeserialize")
       ELSE IF ~player.initialized THEN Err(pl, ar, len, "NotInitialized")
       ELSE IF player.is_alive THEN Err(pl, ar, len, "AlreadyAlive")
       ELSE IF ~(clock >= player.respawn_at) THEN Err(pl, ar, len, "RespawnCooldown")
       ELSE Ret([pl EXCEPT ![p] = [player EXCEPT !.health = eff_max,
                                                 !.max_health = eff_max,
                                                 !.is_alive = TRUE,
                                                 !.respawn_at = 0]],
                ar, len, "Ok")

\* fault: the tier term of the cost is missing
upgrade_cost_flat(current_level) == 100 + 0 * current_level

upgrade_cost(current_level) == 100 + current_level * 50

upgrade_health(player) ==
    [player EXCEPT !.health_level = @ + 1,
                   !.max_health = @ + 10,
                   !.health = IF player.is_alive THEN @ + 10 ELSE @]

upgrade_attack(player) ==
    [player EXCEPT !.attack_level = @ + 1, !.attack_power = @ + 5]

\* the fields a `+=` of upgrade_stat has written, at their width
wrapped(player) ==
    [player EXCEPT !.max_health = @ % (U16_MAX + 1),
                   !.health = @ % (U16_MAX + 1),
                   !.attack_power = @ % (U16_MAX + 1),
                   !.health_level = @ % (U8_MAX + 1),
                   !.attack_level = @ % (U8_MAX + 1)]

upgrade_stat(pl, ar, len, checks, p, stat_type) ==
    LET player == pl[p]
        current_level == IF stat_type = 0 THEN player.health_level
                         ELSE player.attack_level
        cost == upgrade_cost(current_level)
        paid == [player EXCEPT !.xp = @ - cost]
        after == IF stat_type = 0 THEN upgrade_health(paid) ELSE upgrade_attack(paid)
    IN IF ~Loads(len, p) THEN Err(pl, ar, len, "AccountDidNotDeserialize")
       ELSE IF ~player.initialized THEN Err(pl, ar, len, "NotInitialized")
       ELSE IF stat_type \notin {0, 1} THEN Err(pl, ar, len, "InvalidStatType")
       ELSE IF ~(current_level < MAX_LEVEL) THEN Err(pl, ar, len, "MaxLevel")
       ELSE IF ~(player.xp >= cost) THEN Err(pl, ar, len, "InsufficientXP")
       ELSE IF checks /\ wrapped(after) # after THEN Abort(pl, ar, len)
       ELSE Ret([pl EXCEPT ![p] = wrapped(after)], ar, len, "Ok")

\* fault: the talent ranks survive the reset
reset_player_keeps_talents(pl, ar, len, p) ==
    LET player == pl[p]
    IN IF ~Loads(len, p) THEN Err(pl, ar, len, "AccountDidNotDeserialize")
       ELSE IF ~player.initialized THEN Err(pl, ar, len, "NotInitialized")
       ELSE Ret([pl EXCEPT ![p] =
                   [player EXCEPT !.health = BASE_HEALTH, !.max_health = BASE_HEALTH,
                                  !.attack_power = BASE_ATTACK, !.xp = 0, !.kills = 0,
                                  !.deaths = 0, !.health_level = 1, !.attack_level = 1,
                                  !.is_alive = TRUE, !.respawn_at = 0,
                                  !.manual_build = FALSE]],
                ar, len, "Ok")

reset_player(pl, ar, len, p) ==
    LET player == pl[p]
    IN IF ~Loads(len, p) THEN Err(pl, ar, len, "AccountDidNotDeserialize")
       ELSE IF ~player.initialized THEN Err(pl, ar, len, "NotInitialized")
       ELSE Ret([pl EXCEPT ![p] =
                   [player EXCEPT !.health = BASE_HEALTH, !.max_health = BASE_HEALTH,
                                  !.attack_power = BASE_ATTACK, !.xp = 0, !.kills = 0,
                                  !.deaths = 0, !.health_level = 1, !.attack_level = 1,
                                  !.is_alive = TRUE, !.respawn_at = 0,
                                  !.talents = [s \in Slots |-> 0],
                                  !.manual_build = FALSE]],
                ar, len, "Ok")

has_talent_points(player) ==
    LET level == calc_level(player.xp)
        total_points == calc_talent_points(level)
        spent == total_talent_points_spent(player)
    IN spent < total_points

prerequisite_met(player, talent_id) ==
    LET prereq == talent_prerequisite(talent_id)
    IN prereq # NoPrereq => get_talent(player, prereq) >= 1

\* fault: the limit is three capstones
capstone_allowed_three(player, talent_id) ==
    LET current == get_talent(player, talent_id)
        chosen == Cardinality({id \in capstones : get_talent(player, id) > 0})
    IN (talent_id \in capstones /\ current = 0) => chosen < 3

capstone_allowed(player, talent_id) ==
    LET current == get_talent(player, talent_id)
        chosen == Cardinality({id \in capstones : get_talent(player, id) > 0})
    IN (talent_id \in capstones /\ current = 0) => chosen < 2

\* fault: the rank cap is checked before the point budget
allocate_talent_cap_first(pl, ar, len, p, talent_id) ==
    LET player == pl[p]
        current == get_talent(player, talent_id)
    IN IF ~Loads(len, p) THEN Err(pl, ar, len, "AccountDidNotDeserialize")
       ELSE IF ~player.initialized THEN Err(pl, ar, len, "NotInitialized")
       ELSE IF ~(talent_id <= 24) THEN Err(pl, ar, len, "InvalidTalentId")
       ELSE IF ~(current < max_rank_for_talent(talent_id))
            THEN Err(pl, ar, len, "TalentMaxed")
       ELSE IF ~has_talent_points(player) THEN Err(pl, ar, len, "NoTalentPoints")
       ELSE IF ~prerequisite_met(player, talent_id)
            THEN Err(pl, ar, len, "PrerequisiteNotMet")
       ELSE IF ~capstone_allowed(player, talent_id)
            THEN Err(pl, ar, len, "MaxCapstones")
       ELSE Ret([pl EXCEPT ![p] =
                   [set_talent(player, talent_id, current + 1)
                      EXCEPT !.manual_build = TRUE]],
                ar, len, "Ok")

allocate_talent(pl, ar, len, p, talent_id) ==
    LET player == pl[p]
        current == get_talent(player, talent_id)
    IN IF ~Loads(len, p) THEN Err(pl, ar, len, "AccountDidNotDeserialize")
       ELSE IF ~player.initialized THEN Err(pl, ar, len, "NotInitialized")
       ELSE IF ~(talent_id <= 24) THEN Err(pl, ar, len, "InvalidTalentId")
       ELSE IF ~has_talent_points(player) THEN Err(pl, ar, len, "NoTalentPoints")
       ELSE IF ~(current < max_rank_for_talent(talent_id))
            THEN Err(pl, ar, len, "TalentMaxed")
       ELSE IF ~prerequisite_met(player, talent_id)
            THEN Err(pl, ar, len, "PrerequisiteNotMet")
       ELSE IF ~capstone_allowed(player, talent_id)
            THEN Err(pl, ar, len, "MaxCapstones")
       ELSE Ret([pl EXCEPT ![p] =
                   [set_talent(player, talent_id, current + 1)
                      EXCEPT !.manual_build = TRUE]],
                ar, len, "Ok")

\* fault: the ranks are cleared before the record is checked
reset_talents_write_first(pl, ar, len, p) ==
    LET player == pl[p]
        cleared == [pl EXCEPT ![p] = [player EXCEPT !.talents = [s \in Slots |-> 0],
                                                    !.manual_build = TRUE]]
    IN IF ~Loads(len, p) THEN Err(pl, ar, len, "AccountDidNotDeserialize")
       ELSE IF ~player.initialized THEN Err(cleared, ar, len, "NotInitialized")
       ELSE Ret(cleared, ar, len, "Ok")

reset_talents(pl, ar, len, p) ==
    LET player == pl[p]
    IN IF ~Loads(len, p) THEN Err(pl, ar, len, "AccountDidNotDeserialize")
       ELSE IF ~player.initialized THEN Err(pl, ar, len, "NotInitialized")
       ELSE Ret([pl EXCEPT ![p] = [player EXCEPT !.talents = [s \in Slots |-> 0],
                                                 !.manual_build = TRUE]],
                ar, len, "Ok")

\* acct = [id, data_len, disc]: a player account (id \in Players) or any other
\* account handed in as the unchecked AccountInfo (id = 0).
migrate_player(pl, ar, len, acct) ==
    LET current_len == acct.data_len
        target_len == TARGET_LEN
    IN IF current_len = target_len THEN Ret(pl, ar, len, "Ok")
       ELSE IF ~(current_len < target_len) THEN Err(pl, ar, len, "InvalidMigration")
       ELSE IF current_len < 8 THEN Abort(pl, ar, len)
       ELSE IF acct.disc # EXPECTED_DISC THEN Err(pl, ar, len, "InvalidMigration")
       ELSE IF acct.id \in Players
            THEN Ret([pl EXCEPT ![acct.id].talents = [s \in Slots |-> 0],
                                ![acct.id].manual_build = FALSE],
                     ar, [len EXCEPT ![acct.id] = target_len], "Ok")
       ELSE Ret(pl, ar, len, "Ok")

(***************************************************************************)
(* Histories.  A world is [pl, ar, len, now, checks]: the accounts, the    *)
(* clock and the build.  The operators below run the handlers on a world,  *)
(* so that every initial state of the model is the image of the blank      *)
(* world under a sequence of instructions.                                 *)
(***************************************************************************)
MaxSteps == 2
StartClock == 1
KillVolleys == 16

After(w, r) == [w EXCEPT !.pl = r.pl, !.ar = r.ar, !.len = r.len]

Wait(w, d) == [w EXCEPT !.now = @ + d]

Attack(w, a, v, hit_count) ==
    After(w, process_attack(w.pl, w.ar, w.len, w.now, a, v, hit_count))

RespawnIn(w, p) == After(w, respawn_player(w.pl, w.ar, w.len, w.now, p))

Upgrade(w, p, stat_type) ==
    After(w, upgrade_stat(w.pl, w.ar, w.len, w.checks, p, stat_type))

Allocate(w, p, talent_id) == After(w, allocate_talent(w.pl, w.ar, w.len, p, talent_id))

\* w, then what follows it: w is evaluated before the continuation is entered
Then(w, Continue(_)) == IF w.now >= StartClock THEN Continue(w) ELSE w

\* a attacks v with n >= 1 full volleys
RECURSIVE Volleys(_, _, _, _)
Volleys(w, a, v, n) ==
    IF n = 1 THEN Attack(w, a, v, MAX_HIT_COUNT)
    ELSE Then(Volleys(w, a, v, n \div 2),
              LAMBDA half : Volleys(half, a, v, n - n \div 2))

\* a attacks v until v is dead: a full volley of the attackers below takes at
\* least 4500 health, so KillVolleys volleys kill any victim; the volleys
\* after its death fail with VictimDead and change nothing
Kill(w, a, v) == Volleys(w, a, v, KillVolleys)

\* a kills v, the cooldown passes, v respawns
DeathCycle(w, a, v) ==
    Then(Kill(w, a, v), LAMBDA killed : RespawnIn(Wait(killed, RESPAWN_DELAY_SECS), v))

RECURSIVE DeathCycles(_, _, _, _)
DeathCycles(w, a, v, n) ==
    IF n = 1 THEN DeathCycle(w, a, v)
    ELSE Then(DeathCycles(w, a, v, n \div 2),
              LAMBDA half : DeathCycles(half, a, v, n - n \div 2))

\* Every scenario below is built under one build, `checks`.
Blank(checks) ==
    [pl |-> [p \in Players |-> ZeroPlayer], ar |-> ZeroArena,
     len |-> [p \in Players |-> TARGET_LEN], now |-> StartClock, checks |-> checks]

Fresh(checks) ==
    LET w == Blank(checks)
        a == init_arena(w.pl, w.ar, w.len, 9)
        r1 == register_player(a.pl, a.ar, a.len, 1, 1)
        r2 == register_player(r1.pl, r1.ar, r1.len, 2, 2)
    IN After(w, r2)

\* player 2 has died 30 times: 150 xp, both tiers still 1
Grinder(checks) == DeathCycles(Fresh(checks), 1, 2, 30)

\* one round of a feud: 1 kills 2, 2 respawns, 2 kills 1, 1 respawns
Round(w) == Then(DeathCycle(w, 1, 2), LAMBDA first : DeathCycle(first, 2, 1))

RECURSIVE Feud(_, _)
Feud(w, n) ==
    IF n = 1 THEN Round(w)
    ELSE Then(Feud(w, n \div 2), LAMBDA half : Feud(half, n - n \div 2))

\* A career, phase by phase: <<"deaths", n>> (player 1 kills player 2 n times
\* and it respawns each time), <<"feud", n>>, <<"allocate", p, talent_id>>,
\* <<"upgrade", p, stat_type>>, <<"kill">> (player 1 kills player 2),
\* <<"die">> (the same, and the cooldown passes; player 2 has not respawned).
Phase(w, ph) ==
    CASE ph[1] = "deaths" -> DeathCycles(w, 1, 2, ph[2])
      [] ph[1] = "feud" -> Feud(w, ph[2])
      [] ph[1] = "allocate" -> Allocate(w, ph[2], ph[3])
      [] ph[1] = "upgrade" -> Upgrade(w, ph[2], ph[3])
      [] ph[1] = "kill" -> Kill(w, 1, 2)
      [] ph[1] = "die" -> Wait(Kill(w, 1, 2), RESPAWN_DELAY_SECS)

RECURSIVE Phases(_, _)
Phases(w, phases) ==
    IF Len(phases) = 1 THEN Phase(w, phases[1])
    ELSE Then(Phases(w, SubSeq(phases, 1, Len(phases) \div 2)),
              LAMBDA half : Phases(half, SubSeq(phases, Len(phases) \div 2 + 1,
                                                Len(phases))))

Career(w, phases) == Then(w, LAMBDA start : Phases(start, phases))

\* after 200 rounds both players are level 41 (21 talent points)
Veterans(checks) == Feud(Fresh(checks), 200)

\* player 2 spends 20 points: two capstones chosen (slot 4 raised to its cap
\* after slot 9 was chosen), slot 0 at its cap, a third tree filled up to its
\* capstone; player 1 spends 20 points on the experience, execute, berserker,
\* heavy-hitter and critical-strike talents
Specialist(checks) ==
    Career(Veterans(checks),
           <<
             <<"allocate", 2, 0>>, <<"allocate", 2, 0>>,
             <<"allocate", 2, 0>>, <<"allocate", 2, 0>>,
             <<"allocate", 2, 0>>, <<"allocate", 2, 1>>,
             <<"allocate", 2, 2>>, <<"allocate", 2, 3>>,
             <<"allocate", 2, 4>>, <<"allocate", 2, 5>>,
             <<"allocate", 2, 6>>, <<"allocate", 2, 7>>,
             <<"allocate", 2, 8>>, <<"allocate", 2, 9>>,
             <<"allocate", 2, 4>>, <<"allocate", 2, 4>>,
             <<"allocate", 2, 10>>, <<"allocate", 2, 11>>,
             <<"allocate", 2, 12>>, <<"allocate", 2, 13>>,
             <<"allocate", 1, 20>>, <<"allocate", 1, 21>>,
             <<"allocate", 1, 21>>, <<"allocate", 1, 21>>,
             <<"allocate", 1, 21>>, <<"allocate", 1, 21>>,
             <<"allocate", 1, 22>>, <<"allocate", 1, 23>>,
             <<"allocate", 1, 24>>, <<"allocate", 1, 24>>,
             <<"allocate", 1, 24>>, <<"allocate", 1, 5>>,
             <<"allocate", 1, 5>>, <<"allocate", 1, 5>>,
             <<"allocate", 1, 5>>, <<"allocate", 1, 5>>,
             <<"allocate", 1, 6>>, <<"allocate", 1, 7>>,
             <<"allocate", 1, 7>>, <<"allocate", 1, 7>>
           >>)

\* player 2 has died 440 times (2200 xp, 8 talent points)
Punchbag(checks) == DeathCycles(Fresh(checks), 1, 2, 440)

\* ... takes the max-health talent (slot 1) to rank 5 and keeps dying and
\* respawning, buying three health tiers on the way; it is dead with
\* max_health 50413 and its cooldown has passed
Juggernaut(checks) ==
    Career(Punchbag(checks),
           <<
             <<"allocate", 2, 0>>, <<"allocate", 2, 1>>, <<"allocate", 2, 1>>,
             <<"allocate", 2, 1>>, <<"allocate", 2, 1>>, <<"deaths", 2>>,
             <<"allocate", 2, 1>>, <<"deaths", 5>>, <<"upgrade", 2, 0>>,
             <<"deaths", 14>>, <<"upgrade", 2, 0>>, <<"deaths", 3>>,
             <<"upgrade", 2, 0>>, <<"die">>
           >>)

\* ... or takes the talent to rank 5 at once, buys two health tiers, three
\* more after ten respawns, and after fourteen more respawns is alive at
\* max_health 65533 with the experience for a sixth tier
Colossus(checks) ==
    Career(Punchbag(checks),
           <<
             <<"allocate", 2, 0>>, <<"allocate", 2, 1>>, <<"allocate", 2, 1>>,
             <<"allocate", 2, 1>>, <<"allocate", 2, 1>>, <<"allocate", 2, 1>>,
             <<"upgrade", 2, 0>>, <<"upgrade", 2, 0>>, <<"deaths", 10>>,
             <<"upgrade", 2, 0>>, <<"upgrade", 2, 0>>, <<"upgrade", 2, 0>>,
             <<"deaths", 14>>
           >>)

\* 60 rounds later both players are level 52, past the bounty level, player 1
\* has rank 2 of the experience talent and player 2 the first two talents of
\* the area-damage tree
Champions(checks) ==
    Career(Veterans(checks), <<<<"feud", 60>>, <<"allocate", 1, 20>>,
                               <<"allocate", 1, 20>>, <<"allocate", 2, 15>>,
                               <<"allocate", 2, 16>>>>)

\* player 1 has just killed player 2, whose cooldown is running
Fallen(checks) == Career(Fresh(checks), <<<<"kill">>>>)

\* player 2's account was created under the layout without the talent fields
Legacy(checks) == [Fresh(checks) EXCEPT !.len[2] = LEGACY_LEN]

\* The build profile shows only where a `+=` of upgrade_stat can pass the width
\* of its field, which within the steps of a run takes a max_health at the top
\* of the u16 range: that history starts in both builds, the others in the
\* build with overflow checks.
Scenarios ==
    {Blank(TRUE), Fresh(TRUE), Fallen(TRUE), Grinder(TRUE), Specialist(TRUE),
     Champions(TRUE), Juggernaut(TRUE), Legacy(TRUE)}
      \cup {Colossus(checks) : checks \in BOOLEAN}

(***************************************************************************)
(* Inputs                                                                  *)
(***************************************************************************)
HitCounts == {0, 1, 10, MAX_HIT_COUNT, MAX_HIT_COUNT + 1}
TalentIds == 0..25 \cup {U8_MAX}
StatTypes == {0, 1, 2}
Ticks == {1, RESPAWN_DELAY_SECS}
ARENA_LEN == 8 + 32 + 4 + 8 + 1
ARENA_DISC == <<243, 215, 44, 44, 231, 211, 232, 168>>

\* what migrate_player may be handed: a player account, the arena account,
\* some other account of the target length or longer, or an account without data
PlayerAccount(p) == [id |-> p, data_len |-> acct_len[p], disc |-> EXPECTED_DISC]

MigrateInputs ==
    {PlayerAccount(p) : p \in Players}
      \cup {[id |-> 0, data_len |-> n, disc |-> ARENA_DISC]
              : n \in {ARENA_LEN, TARGET_LEN, TARGET_LEN + 1}}
      \cup {[id |-> 0, data_len |-> 0, disc |-> <<>>]}

(***************************************************************************)
(* The state machine                                                       *)
(***************************************************************************)
IdleCurve == [xp |-> 0, level |-> 0, points |-> 0, pc |-> "idle"]

IdleHit == [attacker |-> ZeroPlayer, victim |-> ZeroPlayer, damage |-> 0, pc |-> "idle"]

Init ==
    \E w \in Scenarios :
        /\ players = w.pl
        /\ arena = w.ar
        /\ acct_len = w.len
        /\ now = w.now
        /\ overflow_checks = w.checks
        /\ result = [op |-> "none", err |-> "Ok"]
        /\ steps = 0
        /\ curve = IdleCurve
        /\ hit = IdleHit

\* One instruction: what the handler returned is committed and its error code
\* recorded.  The runtime discards whatever a failed instruction wrote and the
\* run goes on from the accounts before it; the model keeps what the handler
\* returned, so that a write made before a failing check shows, and explores
\* nothing from the state that records a failure.
Commit(op, r) ==
    /\ steps < MaxSteps
    /\ result.err = "Ok"
    /\ players' = r.pl
    /\ arena' = r.ar
    /\ acct_len' = r.len
    /\ result' = [op |-> op, err |-> r.err]
    /\ steps' = IF r.err = "Ok" THEN steps + 1 ELSE steps
    /\ UNCHANGED <<now, overflow_checks, curve, hit>>

InitArena == Commit("init_arena", init_arena(players, arena, acct_len, 9))

RegisterPlayer ==
    \E p \in Players :
        Commit("register_player", register_player(players, arena, acct_len, p, p))

ProcessAttack ==
    \E a \in Players, v \in Players, hit_count \in HitCounts :
        /\ a # v
        /\ Commit("process_attack",
                  process_attack(players, arena, acct_len, now, a, v, hit_count))

RespawnPlayer ==
    \E p \in Players :
        Commit("respawn_player", respawn_player(players, arena, acct_len, now, p))

UpgradeStat ==
    \E p \in Players, stat_type \in StatTypes :
        Commit("upgrade_stat",
               upgrade_stat(players, arena, acct_len, overflow_checks, p, stat_type))

ResetPlayer ==
    \E p \in Players :
        Commit("reset_player", reset_player(players, arena, acct_len, p))

AllocateTalent ==
    \E p \in Players, talent_id \in TalentIds :
        Commit("allocate_talent",
               allocate_talent(players, arena, acct_len, p, talent_id))

ResetTalents ==
    \E p \in Players :
        Commit("reset_talents", reset_talents(players, arena, acct_len, p))

MigratePlayer ==
    \E acct \in MigrateInputs :
        Commit("migrate_player", migrate_player(players, arena, acct_len, acct))

\* The clock service moves on.  The handlers read the clock only to stamp
\* respawn_at at a death and to compare against it at a respawn, so the clock
\* is advanced only while some record is waiting for its cooldown.
Tick ==
    \E d \in Ticks :
        /\ steps < MaxSteps
        /\ result.err = "Ok"
        /\ \E p \in Players : players[p].initialized /\ ~players[p].is_alive
        /\ now' = now + d
        /\ steps' = steps + 1
        /\ result' = [op |-> "tick", err |-> "Ok"]
        /\ UNCHANGED <<players, arena, acct_len, overflow_checks, curve, hit>>

Next ==
    \/ InitArena
    \/ RegisterPlayer
    \/ ProcessAttack
    \/ RespawnPlayer
    \/ UpgradeStat
    \/ ResetPlayer
    \/ AllocateTalent
    \/ ResetTalents
    \/ MigratePlayer
    \/ Tick

Spec == Init /\ [][Next]_vars

(***************************************************************************)
(* The progression curve on its own: calc_level applied to an experience   *)
(* value, calc_talent_points applied to the level it returned.             *)
(***************************************************************************)
MaxXp == 118300

XpInputs == 0..MaxXp

CurveInit ==
    /\ curve \in {[xp |-> xp, level |-> 0, points |-> 0, pc |-> "level"] : xp \in XpInputs}
    /\ players = [p \in Players |-> ZeroPlayer]
    /\ arena = ZeroArena
    /\ acct_len = [p \in Players |-> 0]
    /\ now = 0
    /\ overflow_checks = TRUE
    /\ result = [op |-> "none", err |-> "Ok"]
    /\ steps = 0
    /\ hit = IdleHit

CalcLevel ==
    /\ curve.pc = "level"
    /\ curve' = [curve EXCEPT !.level = calc_level(curve.xp), !.pc = "points"]
    /\ UNCHANGED <<players, acct_len, arena, now, overflow_checks, result, steps, hit>>

CalcTalentPoints ==
    /\ curve.pc = "points"
    /\ curve' = [curve EXCEPT !.points = calc_talent_points(curve.level), !.pc = "done"]
    /\ UNCHANGED <<players, acct_len, arena, now, overflow_checks, result, steps, hit>>

CurveNext == CalcLevel \/ CalcTalentPoints

CurveSpec == CurveInit /\ [][CurveNext]_vars

(***************************************************************************)
(* The damage engine on its own: compute_hit_damage applied to an attacker *)
(* and a victim record.  The records are registered records with their     *)
(* attack_power, health, max_health and talent ranks drawn from the sets    *)
(* below; every rank is within its cap and a slot with a rank has its       *)
(* prerequisite chain filled with rank 1 at least, as allocate_talent       *)
(* leaves it.                                                              *)
(***************************************************************************)
\* the slots that must hold a rank before talent_id can
Ancestors(talent_id) ==
    LET p1 == talent_prerequisite(talent_id)
        p2 == talent_prerequisite(p1)
        p3 == talent_prerequisite(p2)
        p4 == talent_prerequisite(p3)
    IN {p1, p2, p3, p4} \ {NoPrereq}

WithPrerequisites(ranks) ==
    [s \in Slots |->
        IF ranks[s] > 0 THEN ranks[s]
        ELSE IF \E t \in Slots : ranks[t] > 0 /\ s \in Ancestors(t) THEN 1
        ELSE 0]

Combatant(attack_power, health, max_health, ranks) ==
    [register_player([p \in Players |-> ZeroPlayer], ZeroArena,
                     [p \in Players |-> 0], 1, 1).pl[1]
        EXCEPT !.attack_power = attack_power, !.health = health,
               !.max_health = max_health, !.talents = WithPrerequisites(ranks),
               !.manual_build = \E s \in Slots : ranks[s] > 0]

NoRanks == [s \in Slots |-> 0]

AttackerBuilds ==
    {[NoRanks EXCEPT ![5] = r5, ![7] = r7, ![21] = r21, ![24] = r24, ![4] = r4, ![1] = r1]
        : r5 \in {0, 1, 5}, r7 \in {0, 3}, r21 \in {0, 5}, r24 \in {0, 1, 3},
          r4 \in {0, 3}, r1 \in {0, 5}}

VictimBuilds ==
    {[NoRanks EXCEPT ![0] = r0, ![1] = r1] : r0 \in {0, 1, 5}, r1 \in {0, 3}}

\* the least power that is not nothing, the registered power, one that the
\* talents take over the cap, and the largest a u16 holds
AttackPowers == {1, BASE_ATTACK, 400, U16_MAX}

\* health and max_health of an attacker: around 33% of the max_health and of
\* the max_health raised by 10% and by 30%
AttackerHealths ==
    {<<h, 100>> : h \in {33, 34, 36, 37, 42, 43, 100}}
      \cup {<<h, 20000>> : h \in {6600, 6601, 7260, 7261, 8580, 8581, 20000}}

\* health and max_health of a victim: around half of the max_health and of
\* the max_health raised by 20%
VictimHealths == {<<h, 100>> : h \in {50, 51, 60, 61, 100}}

Attackers ==
    {Combatant(ap, ah[1], ah[2], ab)
        : ap \in AttackPowers, ah \in AttackerHealths, ab \in AttackerBuilds}

Victims ==
    {Combatant(BASE_ATTACK, vh[1], vh[2], vb) : vh \in VictimHealths, vb \in VictimBuilds}

HitInputs ==
    {[attacker |-> a, victim |-> v, damage |-> 0, pc |-> "hit"]
        : a \in Attackers, v \in Victims}

DamageInit ==
    /\ hit \in HitInputs
    /\ players = [p \in Players |-> ZeroPlayer]
    /\ arena = ZeroArena
    /\ acct_len = [p \in Players |-> 0]
    /\ now = 0
    /\ overflow_checks = TRUE
    /\ result = [op |-> "none", err |-> "Ok"]
    /\ steps = 0
    /\ curve = IdleCurve

ComputeHitDamage ==
    /\ hit.pc = "hit"
    /\ hit' = [hit EXCEPT !.damage = compute_hit_damage(hit.attacker, hit.victim),
                          !.pc = "done"]
    /\ UNCHANGED <<players, acct_len, arena, now, overflow_checks, result, steps, curve>>

DamageNext == ComputeHitDamage

DamageSpec == DamageInit /\ [][DamageNext]_vars

(***************************************************************************)
(* Properties.  Registered(p): the record is initialized.  Whole(p): the  *)
(* account is long enough to be read as a PlayerState, so that a handler   *)
(* reaches its own checks.                                                 *)
(***************************************************************************)
Registered(p) == players[p].initialized

Whole(p) == acct_len[p] >= TARGET_LEN

Rank(p, s) == players[p].talents[s]

SpentPoints(p) == total_talent_points_spent(players[p])

AvailablePoints(p) == calc_talent_points(calc_level(players[p].xp))

ChosenCapstones(p) == {c \in {4, 9, 14, 17, 24} : Rank(p, c) # 0}

RankCap(s) == IF s \in {4, 9, 14, 17, 24} THEN 3 ELSE 5

\* slot s + 1 of the tuple is the slot that must hold a rank before slot s
PredecessorOf ==
    <<-1, 0, 1, 2, 3, -1, 5, 6, 7, 8, -1, 10, 11, 12, 13,
      -1, 15, 18, 19, 16, -1, 20, 21, 22, 23>>

\* C1: an instruction that returns an error leaves both player records, the
\* arena and the accounts' lengths exactly as they were before it.
FailedInstructionChangesNothing ==
    [][result'.err # "Ok" =>
         (players' = players /\ arena' = arena /\ acct_len' = acct_len)]_vars

\* a failed instruction on records that hold something to lose
FailedOnLiveRecords ==
    /\ result.err \notin {"Ok", "AccountDidNotDeserialize"}
    /\ result.op \in {"process_attack", "respawn_player", "upgrade_stat",
                      "allocate_talent", "migrate_player"}
    /\ \E p \in Players : Registered(p) /\ players[p].xp > 0 /\ SpentPoints(p) > 0

HealthZeroIffDead ==
    \A p \in Players :
        Registered(p) => ((players[p].health = 0) <=> ~players[p].is_alive)

\* C4: at most 2 capstones hold a rank; allocating a capstone at rank 0 while
\* 2 others hold a rank fails with MaxCapstones once the earlier checks pass;
\* a capstone that already holds a rank is raised without the count being
\* looked at.
CapstoneLimit ==
    \A p \in Players :
        (Registered(p) /\ Whole(p)) =>
            /\ Cardinality(ChosenCapstones(p)) <= 2
            /\ \A c \in {4, 9, 14, 17, 24} :
                 LET err == allocate_talent(players, arena, acct_len, p, c).err
                     open == /\ SpentPoints(p) < AvailablePoints(p)
                             /\ Rank(p, PredecessorOf[c + 1]) >= 1
                 IN /\ (Rank(p, c) = 0 /\ Cardinality(ChosenCapstones(p)) = 2)
                         => /\ err # "Ok"
                            /\ open => err = "MaxCapstones"
                    /\ (Rank(p, c) >= 1 /\ Rank(p, c) < 3
                          /\ SpentPoints(p) < AvailablePoints(p))
                         => err = "Ok"

\* a third capstone has just been refused to a record that has a point to
\* spend and a chosen capstone above rank 1
ThirdCapstoneRefused ==
    /\ result.op = "allocate_talent"
    /\ result.err = "MaxCapstones"
    /\ \E p \in Players :
         /\ Cardinality(ChosenCapstones(p)) = 2
         /\ SpentPoints(p) < AvailablePoints(p)
         /\ \E c \in ChosenCapstones(p) : Rank(p, c) > 1

\* C5: a capstone never holds more than rank 3, any other talent never more
\* than rank 5.
RankCaps ==
    \A p \in Players : \A s \in Slots : Rank(p, s) <= RankCap(s)

\* an allocation has just been refused at a cap, on a record with a capstone
\* at 3 and another talent at 5
RefusedAtCap ==
    /\ result.op = "allocate_talent"
    /\ result.err = "TalentMaxed"
    /\ \E p \in Players : Rank(p, 4) = 3 /\ Rank(p, 0) = 5

\* C6: on an initialized record, health never exceeds max_health.
HealthWithinMax ==
    \A p \in Players : Registered(p) => players[p].health <= players[p].max_health

\* C7 as stated: experience never decreases except through reset_player.
ExperienceOnlyResetDecreases ==
    [][result'.op # "reset_player" =>
         \A p \in Players : players'[p].xp >= players[p].xp]_vars

\* C7: experience decreases only through reset_player or through a successful
\* upgrade_stat, which takes exactly 100 + 50 * (the tier it raises).
ExperienceDecreasesOnlyByResetOrUpgrade ==
    [][\A p \in Players :
         players'[p].xp < players[p].xp =>
            \/ result'.op = "reset_player"
            \/ /\ result'.op = "upgrade_stat"
               /\ result'.err = "Ok"
               /\ \/ /\ players'[p].health_level = players[p].health_level + 1
                     /\ players[p].xp - players'[p].xp
                          = 100 + 50 * players[p].health_level
                  \/ /\ players'[p].attack_level = players[p].attack_level + 1
                     /\ players[p].xp - players'[p].xp
                          = 100 + 50 * players[p].attack_level]_vars

\* a tier has just been bought with all the experience the record had
ExperienceSpentOnUpgrade ==
    /\ result.op = "upgrade_stat"
    /\ result.err = "Ok"
    /\ \E p \in Players :
         /\ players[p].xp = 0
         /\ players[p].deaths > 0
         /\ players[p].health_level + players[p].attack_level = 3

\* the outcome of allocate_talent, check by check in the order stated;
\* no_points: the sum of the ranks has reached the points of the level
ExpectedAllocate(p, talent_id, no_points) ==
    IF ~Registered(p) THEN "NotInitialized"
    ELSE IF talent_id \notin 0..24 THEN "InvalidTalentId"
    ELSE IF no_points THEN "NoTalentPoints"
    ELSE IF Rank(p, talent_id) >= RankCap(talent_id) THEN "TalentMaxed"
    ELSE IF PredecessorOf[talent_id + 1] # -1
              /\ Rank(p, PredecessorOf[talent_id + 1]) < 1
         THEN "PrerequisiteNotMet"
    ELSE IF talent_id \in {4, 9, 14, 17, 24} /\ Rank(p, talent_id) = 0
              /\ Cardinality(ChosenCapstones(p)) >= 2
         THEN "MaxCapstones"
    ELSE "Ok"

\* C8: allocate_talent fails with the first that applies of NotInitialized,
\* InvalidTalentId, NoTalentPoints, TalentMaxed, PrerequisiteNotMet,
\* MaxCapstones, and succeeds exactly when none applies.
AllocateErrorOrder ==
    \A p \in Players :
        Whole(p) =>
            LET no_points == SpentPoints(p) >= AvailablePoints(p)
            IN \A talent_id \in TalentIds :
                 allocate_talent(players, arena, acct_len, p, talent_id).err
                   = ExpectedAllocate(p, talent_id, no_points)

\* an allocation has just been refused for its prerequisite, on a record on
\* which the later check would have refused it too
PrerequisiteRefusedFirst ==
    /\ result.op = "allocate_talent"
    /\ result.err = "PrerequisiteNotMet"
    /\ \E p \in Players :
         /\ SpentPoints(p) < AvailablePoints(p)
         /\ Cardinality(ChosenCapstones(p)) = 2
         /\ \E c \in {4, 9, 14, 17, 24} :
              Rank(p, c) = 0 /\ Rank(p, PredecessorOf[c + 1]) = 0

\* C9: a successful allocate_talent raises the targeted rank by exactly 1,
\* sets manual_build, changes nothing else, and happens only when fewer points
\* are spent than are available.
AllocationTakesOnePoint ==
    [][(result'.op = "allocate_talent" /\ result'.err = "Ok") =>
         \E p \in Players, s \in Slots :
            /\ players' = [players EXCEPT ![p].talents[s] = @ + 1,
                                          ![p].manual_build = TRUE]
            /\ arena' = arena
            /\ acct_len' = acct_len
            /\ now' = now
            /\ SpentPoints(p) < AvailablePoints(p)]_vars

\* the last available point has just been allocated
LastPointAllocated ==
    /\ result.op = "allocate_talent"
    /\ result.err = "Ok"
    /\ \E p \in Players :
         /\ players[p].manual_build
         /\ SpentPoints(p) = AvailablePoints(p)
         /\ SpentPoints(p) > 1

\* the outcome of the checks of process_attack, in the order stated
ExpectedAttack(a, v, hit_count) ==
    IF ~Registered(a) \/ ~Registered(v) THEN "NotInitialized"
    ELSE IF ~players[a].is_alive THEN "AttackerDead"
    ELSE IF ~players[v].is_alive THEN "VictimDead"
    ELSE IF ~arena.is_active THEN "ArenaInactive"
    ELSE IF hit_count < 1 \/ hit_count > 500 THEN "InvalidHitCount"
    ELSE "Ok"

\* C10: process_attack fails with the first that applies of NotInitialized,
\* AttackerDead, VictimDead, ArenaInactive, InvalidHitCount (outside [1, 500]);
\* an attack by or on a dead record changes no record and not the arena.
AttackGuards ==
    /\ [](\A a \in Players, v \in Players, hit_count \in HitCounts :
            (a # v /\ Whole(a) /\ Whole(v)) =>
                process_attack(players, arena, acct_len, now, a, v, hit_count).err
                  = ExpectedAttack(a, v, hit_count))
    /\ [][(result'.op = "process_attack"
             /\ \E p \in Players : Registered(p) /\ ~players[p].is_alive)
            => (players' = players /\ arena' = arena)]_vars

\* an attack by a dead record has just been refused
DeadAttackerRefused ==
    /\ result.op = "process_attack"
    /\ result.err = "AttackerDead"
    /\ \E p \in Players : Registered(p) /\ ~players[p].is_alive
    /\ \E p \in Players : Registered(p) /\ players[p].is_alive

\* C11: a successful process_attack whose total damage, min(65535, per-hit
\* damage x hit_count), reaches the victim's health kills the victim: health 0,
\* not alive, deaths + 1, experience + 5, respawn_at = now + 5, and the
\* attacker's kills and the arena's total_kills each + 1.
KillTransition ==
    \A a \in Players, v \in Players, hit_count \in HitCounts :
        LET r == process_attack(players, arena, acct_len, now, a, v, hit_count)
            total == Min(65535, compute_hit_damage(players[a], players[v]) * hit_count)
        IN (a # v /\ r.err = "Ok" /\ total >= players[v].health) =>
               /\ r.pl[v].health = 0
               /\ r.pl[v].is_alive = FALSE
               /\ r.pl[v].deaths = players[v].deaths + 1
               /\ r.pl[v].xp = players[v].xp + 5
               /\ r.pl[v].respawn_at = now + 5
               /\ r.pl[a].kills = players[a].kills + 1
               /\ r.ar.total_kills = arena.total_kills + 1

\* a first kill has just happened, by a volley of ten hits of 10 that took
\* exactly the 100 health the victim had
KilledAtExactHealth ==
    /\ result = [op |-> "process_attack", err |-> "Ok"]
    /\ arena.total_kills = 1
    /\ \E a \in Players, v \in Players :
         /\ players[a].kills = 1 /\ players[a].is_alive
         /\ players[a].attack_power = 10 /\ SpentPoints(a) = 0
         /\ ~players[v].is_alive /\ players[v].health = 0
         /\ players[v].deaths = 1 /\ players[v].xp = 5
         /\ players[v].max_health = 100 /\ SpentPoints(v) = 0
         /\ players[v].respawn_at = now + 5

\* experience of a kill as stated: base 10 + 3 x max(0, victim_level - 1),
\* doubled from victim level 50, scaled by the attacker's rank in slot 20
ExperienceMagnitude == <<1000, 1700, 2400, 3200, 4000>>

ExpectedKillExperience(a, v) ==
    LET victim_level == calc_level(players[v].xp)
        levels_above_one == IF victim_level - 1 > 0 THEN victim_level - 1 ELSE 0
        base == 10 + 3 * levels_above_one
        bounty == IF victim_level >= 50 THEN 2 * base ELSE base
        exp_bps == IF Rank(a, 20) = 0 THEN 0 ELSE ExperienceMagnitude[Rank(a, 20)]
    IN (bounty * (10000 + exp_bps)) \div 10000

\* C12: on a kill the attacker's experience grows by exactly
\* floor(base x (10000 + exp_bps) / 10000), base = 10 + 3 x max(0, victim
\* level - 1), doubled when the victim's level (of its experience before the
\* death award) is 50 or more, exp_bps the attacker's slot 20 magnitude.
KillExperience ==
    \A a \in Players, v \in Players, hit_count \in HitCounts :
        LET r == process_attack(players, arena, acct_len, now, a, v, hit_count)
        IN (a # v /\ r.err = "Ok" /\ ~r.pl[v].is_alive) =>
               r.pl[a].xp = players[a].xp + ExpectedKillExperience(a, v)

\* player 1, with rank 2 in slot 20, has just killed a victim of level 52:
\* 2 x (10 + 3 x 51) = 326, and 326 x 11700 / 10000 = 381
BountyKillWithExperienceTalent ==
    /\ result = [op |-> "process_attack", err |-> "Ok"]
    /\ \E a \in Players, v \in Players :
         /\ Rank(a, 20) = 2
         /\ ~players[v].is_alive /\ players[v].respawn_at = now + 5
         /\ calc_level(players[v].xp - 5) = 52
         /\ players[a].xp = 26323 + 381

\* the outcome of the checks of respawn_player, in the order stated
ExpectedRespawn(p) ==
    IF ~Registered(p) THEN "NotInitialized"
    ELSE IF players[p].is_alive THEN "AlreadyAlive"
    ELSE IF now < players[p].respawn_at THEN "RespawnCooldown"
    ELSE "Ok"

IronSkinMagnitude == <<1000, 1500, 2000, 2500, 3000>>

\* floor(max_health x (10000 + iron_skin_bps) / 10000), by the rank in slot 1
EffectiveMaxHealth(p) ==
    LET iron_skin_bps == IF Rank(p, 1) = 0 THEN 0 ELSE IronSkinMagnitude[Rank(p, 1)]
    IN (players[p].max_health * (10000 + iron_skin_bps)) \div 10000

\* C13: respawn_player fails with NotInitialized, AlreadyAlive or
\* RespawnCooldown (now < respawn_at), in that order; otherwise it sets health
\* and max_health to floor(max_health x (10000 + iron_skin_bps) / 10000),
\* is_alive to true and respawn_at to 0, and leaves the rest of the record.
RespawnOutcome ==
    /\ [](\A p \in Players :
            Whole(p) => respawn_player(players, arena, acct_len, now, p).err
                          = ExpectedRespawn(p))
    /\ [][(result'.op = "respawn_player" /\ result'.err = "Ok") =>
            \E p \in Players :
                /\ ExpectedRespawn(p) = "Ok"
                /\ players' = [players EXCEPT ![p] =
                                 [@ EXCEPT !.health = EffectiveMaxHealth(p),
                                           !.max_health = EffectiveMaxHealth(p),
                                           !.is_alive = TRUE,
                                           !.respawn_at = 0]]]_vars

\* the tier upgrade_stat selects
SelectedTier(p, stat_kind) ==
    IF stat_kind = 0 THEN players[p].health_level ELSE players[p].attack_level

\* the outcome of the checks of upgrade_stat, in the order stated
ExpectedUpgrade(p, stat_kind) ==
    IF ~Registered(p) THEN "NotInitialized"
    ELSE IF stat_kind \notin {0, 1} THEN "InvalidStatType"
    ELSE IF SelectedTier(p, stat_kind) >= 100 THEN "MaxLevel"
    ELSE IF players[p].xp < 100 + SelectedTier(p, stat_kind) * 50 THEN "InsufficientXP"
    ELSE "Ok"

\* the record a successful upgrade_stat leaves, as stated
UpgradedRecord(p, stat_kind) ==
    LET paid == [players[p] EXCEPT !.xp = @ - (100 + SelectedTier(p, stat_kind) * 50)]
    IN IF stat_kind = 0
       THEN [paid EXCEPT !.health_level = @ + 1, !.max_health = @ + 10,
                         !.health = IF players[p].is_alive THEN @ + 10 ELSE @]
       ELSE [paid EXCEPT !.attack_level = @ + 1, !.attack_power = @ + 5]

\* C14: upgrade_stat fails with NotInitialized, InvalidStatType, MaxLevel (tier
\* already 100) or InsufficientXP (experience < 100 + tier x 50), in that
\* order; otherwise it succeeds, takes 100 + tier x 50 experience, raises the
\* selected tier by 1 and max_health by 10 (health by 10 if alive) or
\* attack_power by 5, and changes nothing else.
UpgradeOutcome ==
    [][\A p \in Players, stat_kind \in StatTypes :
          LET r == upgrade_stat(players, arena, acct_len, overflow_checks, p, stat_kind)
          IN (/\ Whole(p)
              /\ result'.op = "upgrade_stat"
              /\ result'.err = r.err
              /\ players' = r.pl) =>
                 /\ result'.err = ExpectedUpgrade(p, stat_kind)
                 /\ result'.err = "Ok" =>
                        /\ players' = [players EXCEPT ![p] = UpgradedRecord(p, stat_kind)]
                        /\ arena' = arena]_vars

\* the record of a registration, as stated
RegistrationDefaults(wallet) ==
    [wallet |-> wallet, health |-> 100, max_health |-> 100, attack_power |-> 10,
     xp |-> 0, kills |-> 0, deaths |-> 0, health_level |-> 1, attack_level |-> 1,
     is_alive |-> TRUE, respawn_at |-> 0, initialized |-> TRUE,
     talents |-> [s \in Slots |-> 0], manual_build |-> FALSE]

\* C15: reset_player on an initialized record, whatever its state, yields the
\* record register_player produces for the same identity (health = max_health
\* = 100, attack_power 10, experience, kills, deaths 0, both tiers 1, alive,
\* respawn_at 0, all ranks 0, manual_build false), touches nothing else, and
\* applied twice gives what it gives applied once.
ResetIsRegistration ==
    \A p \in Players :
        (Whole(p) /\ Registered(p)) =>
            LET once == reset_player(players, arena, acct_len, p)
                twice == reset_player(once.pl, once.ar, once.len, p)
                registered == register_player([players EXCEPT ![p] = ZeroPlayer],
                                              arena, acct_len, p, players[p].wallet)
            IN /\ once.err = "Ok" /\ twice.err = "Ok" /\ registered.err = "Ok"
               /\ once.pl[p] = RegistrationDefaults(players[p].wallet)
               /\ once.pl[p] = registered.pl[p]
               /\ \A q \in Players \ {p} : once.pl[q] = players[q]
               /\ once.ar = arena
               /\ twice.pl = once.pl /\ twice.ar = once.ar

\* a record that had died 465 times, was dead and held talent ranks has just
\* been reset
VeteranReset ==
    /\ result = [op |-> "reset_player", err |-> "Ok"]
    /\ \E p \in Players, q \in Players :
         /\ p # q
         /\ players[q].kills = 465
         /\ players[p] = RegistrationDefaults(players[p].wallet)

\* cost of a level as stated: (2L - 1) x 10, and for L > 50
\* floor((2L - 1) x 10 x (10000 + (L - 50) x 100) / 10000)
CostOfLevel(L) ==
    IF L <= 50 THEN (2 * L - 1) * 10
    ELSE ((2 * L - 1) * 10 * (10000 + (L - 50) * 100)) \div 10000

\* cumulative cost of levels 1..L
CumulativeCost ==
    [L \in 1..100 |-> BagCardinality([l \in 1..L |-> CostOfLevel(l)])] @@ <<>>

LevelComputed == curve.pc \in {"points", "done"}

\* C16 as stated: the level is the largest L in [1, 100] whose cumulative cost
\* of levels 1..L does not exceed the experience.
LevelIsLargestAffordable ==
    LevelComputed =>
        /\ curve.level \in 1..100
        /\ CumulativeCost[curve.level] <= curve.xp
        /\ \A L \in (curve.level + 1)..100 : CumulativeCost[L] > curve.xp

\* C16: the level is 1 + the number of L in [1, 99] whose cumulative cost of
\* levels 1..L does not exceed the experience (the level after the largest
\* such L, and 1 when there is none), with the stated cost of a level.
LevelFollowsLargestAffordable ==
    LevelComputed =>
        curve.level = 1 + Cardinality({L \in 1..99 : CumulativeCost[L] <= curve.xp})

\* the level of 26020 experience, the cumulative cost of levels 1..51, has
\* been computed: 52 (the cost of level 51 carries the surcharge)
LevelAboveFiftyComputed ==
    /\ LevelComputed
    /\ curve.xp = 26020
    /\ curve.level = 52

\* experience values further on, to compare a level with
Strides == {1, 9, 1000, 100000}

\* C17: the level is in [1, 100] and never falls as experience grows.
LevelMonotonicBounded ==
    LevelComputed =>
        /\ curve.level \in 1..100
        /\ \A d \in Strides : curve.level <= calc_level(curve.xp + d)
        /\ \A d \in Strides : calc_level(curve.xp + d) \in 1..100

\* the level of 118205 experience, the cumulative cost of levels 1..99, has
\* been computed: the loop ran to its end and the level is 100
TopLevelComputed ==
    /\ LevelComputed
    /\ curve.xp = 118205
    /\ curve.level = 100

PointsComputed == curve.pc = "done"

OddThresholds == {t \in 1..99 : t % 2 = 1}

\* C18: the talent points of a level are the number of odd thresholds in
\* {1, 3, ..., 99} the level has reached; they never fall as the level grows,
\* are 2 at level 3 and 50 at level 100.
TalentPointsCountOddThresholds ==
    PointsComputed =>
        /\ curve.points = Cardinality({t \in OddThresholds : t <= curve.level})
        /\ curve.points <= calc_talent_points(curve.level + 1)
        /\ curve.level = 3 => curve.points = 2
        /\ curve.level = 100 => curve.points = 50

\* the points of level 100 have been computed
PointsOfTopLevelComputed ==
    /\ PointsComputed
    /\ curve.level = 100
    /\ curve.points = 50

\* C19 as stated: experience 0 gives level 1 and 0 talent points.
NoPointsAtZeroExperience ==
    (PointsComputed /\ curve.xp = 0) => (curve.level = 1 /\ curve.points = 0)

\* C19: experience 0 gives level 1, and level 1 gives 1 talent point.
OnePointAtZeroExperience ==
    (PointsComputed /\ curve.xp = 0) => (curve.level = 1 /\ curve.points = 1)

\* the level and the points of experience 0 have been computed
ZeroExperienceComputed ==
    /\ PointsComputed
    /\ curve.xp = 0
    /\ curve.level = 1

HitComputed == hit.pc = "done"

Scaled(x, bps) == (x * (10000 + bps)) \div 10000

EffectiveMaxHealthOf(record) ==
    Scaled(record.max_health, lookup_bps(record.talents[1], IRON_SKIN_BPS))

\* the pipeline as stated, truncating after each stage
ReferenceDamage(attacker, victim) ==
    LET power == attacker.attack_power
        boosted == Scaled(power, lookup_bps(attacker.talents[5], HEAVY_HITTER_BPS))
        weak == attacker.health * 100 <= 33 * EffectiveMaxHealthOf(attacker)
        berserk == IF attacker.talents[24] > 0 /\ weak
                   THEN Scaled(boosted, lookup_bps(attacker.talents[24], BERSERKER_DMG_BPS))
                   ELSE boosted
        vitality == berserk
                      + (EffectiveMaxHealthOf(attacker)
                           * lookup_bps(attacker.talents[4], VITALITY_STRIKE_BPS)) \div 10000
        clamped == IF vitality > 500 THEN 500 ELSE vitality
        crit == Scaled(clamped, lookup_bps(attacker.talents[7], CRIT_EXPECTED_BPS))
        low == victim.health * 2 <= EffectiveMaxHealthOf(victim)
        execute == IF attacker.talents[21] > 0 /\ low
                   THEN Scaled(crit, lookup_bps(attacker.talents[21], EXECUTE_BPS))
                   ELSE crit
        armored == (execute * (10000 - lookup_bps(victim.talents[0], ARMOR_BPS))) \div 10000
    IN IF armored < 1 THEN 1 ELSE armored

\* C20: compute_hit_damage is the pipeline attack_power; bonus damage; berserker
\* when the attacker's health is at most 33% of its effective max health; plus
\* the vitality share of the effective max health; clamp to 500; critical
\* strike; execute when twice the victim's health is at most its effective max
\* health; the victim's armor; at least 1 - truncating after each stage.  With
\* attack_power 10 it is 10 with no talents and 10 with bonus damage rank 1.
DamagePipeline ==
    HitComputed =>
        /\ hit.damage = ReferenceDamage(hit.attacker, hit.victim)
        /\ (/\ hit.attacker.attack_power = 10
            /\ hit.victim.talents = NoRanks
            /\ \/ hit.attacker.talents = NoRanks
               \/ hit.attacker.talents = [NoRanks EXCEPT ![5] = 1])
             => hit.damage = 10

\* a hit by a weak attacker with berserker, vitality strike, critical strike
\* and execute on a victim at half health with armor has been computed, and
\* the stages after the clamp took it above 500
FullPipelineComputed ==
    /\ HitComputed
    /\ hit.attacker.attack_power = 400
    /\ hit.attacker.talents[5] = 5 /\ hit.attacker.talents[24] = 3
    /\ hit.attacker.talents[4] = 3 /\ hit.attacker.talents[7] = 3
    /\ hit.attacker.talents[21] = 5
    /\ hit.attacker.health = 7260 /\ hit.attacker.max_health = 20000
    /\ hit.victim.talents[0] = 5 /\ hit.victim.talents[1] = 3
    /\ hit.victim.health = 60
    /\ hit.damage > 500

\* C21: a hit deals at least 1; without the critical-strike (slot 7) and the
\* execute (slot 21) talents it deals at most the cap 500; the victim's armor
\* takes strictly less than 100%.
DamageBounds ==
    HitComputed =>
        /\ hit.damage >= 1
        /\ (hit.attacker.talents[7] = 0 /\ hit.attacker.talents[21] = 0)
             => hit.damage <= 500
        /\ lookup_bps(hit.victim.talents[0], ARMOR_BPS) < 10000

\* a hit of power 1 on a victim with armor has been computed: the armor takes
\* it to 0 and the floor gives 1
HitRaisedToOne ==
    /\ HitComputed
    /\ hit.attacker.attack_power = 1
    /\ hit.attacker.talents = NoRanks
    /\ hit.victim.talents[0] = 5
    /\ hit.damage = 1

\* the type tag of an account is its first 8 bytes
TagMatches(acct) == acct.data_len >= 8 /\ acct.disc = EXPECTED_DISC

\* the record of a grown account: the fields it had, the added ones zero
GrownRecord(p) ==
    [players[p] EXCEPT !.talents = [s \in Slots |-> 0], !.manual_build = FALSE]

\* C22: migrate_player on a record of length n fails with InvalidMigration if
\* the type tag does not match or n is larger than the target length; changes
\* nothing if n equals the target length; and for a smaller n with a matching
\* tag grows the record to the target length, the fields it had unchanged and
\* every added field zero.
MigrationOutcome ==
    [][\A acct \in MigrateInputs :
          LET r == migrate_player(players, arena, acct_len, acct)
              n == acct.data_len
          IN (/\ result'.op = "migrate_player"
              /\ result'.err = r.err
              /\ players' = r.pl
              /\ acct_len' = r.len) =>
                 /\ (~TagMatches(acct) \/ n > TARGET_LEN) =>
                        /\ result'.err = "InvalidMigration"
                        /\ players' = players /\ acct_len' = acct_len
                 /\ n = TARGET_LEN =>
                        players' = players /\ acct_len' = acct_len
                 /\ (TagMatches(acct) /\ n < TARGET_LEN) =>
                        /\ result'.err = "Ok"
                        /\ acct_len' = [acct_len EXCEPT ![acct.id] = TARGET_LEN]
                        /\ players' = [players EXCEPT ![acct.id] = GrownRecord(acct.id)]
                 /\ arena' = arena]_vars

\* C23: a successful process_attack whose total damage, min(65535, per-hit
\* damage x hit_count), is below the victim's health takes exactly the total
\* from the victim's health and changes nothing else in either record or in
\* the arena.
NonLethalFrame ==
    \A a \in Players, v \in Players, hit_count \in HitCounts :
        LET r == process_attack(players, arena, acct_len, now, a, v, hit_count)
            total == Min(65535, compute_hit_damage(players[a], players[v]) * hit_count)
        IN (a # v /\ r.err = "Ok" /\ total < players[v].health) =>
               /\ r.pl = [players EXCEPT ![v].health = players[v].health - total]
               /\ r.ar = arena
               /\ r.len = acct_len

\* a hit has left a victim wounded and alive, with no kill recorded anywhere
WoundedNotKilled ==
    /\ result = [op |-> "process_attack", err |-> "Ok"]
    /\ arena.total_kills = 0
    /\ \E a \in Players, v \in Players :
         /\ a # v
         /\ players[a] = RegistrationDefaults(players[a].wallet)
         /\ players[v] = [RegistrationDefaults(players[v].wallet) EXCEPT !.health = 90]

\* C24: after a kill both tiers of the attacker equal the level of the
\* attacker's new experience, whatever they were before, and the attacker's
\* max_health, health and attack_power are as before the kill.
KillOverwritesTiers ==
    \A a \in Players, v \in Players, hit_count \in HitCounts :
        LET r == process_attack(players, arena, acct_len, now, a, v, hit_count)
            total == Min(65535, compute_hit_damage(players[a], players[v]) * hit_count)
        IN (a # v /\ r.err = "Ok" /\ total >= players[v].health) =>
               /\ r.pl[a].health_level = calc_level(r.pl[a].xp)
               /\ r.pl[a].attack_level = calc_level(r.pl[a].xp)
               /\ r.pl[a].max_health = players[a].max_health
               /\ r.pl[a].health = players[a].health
               /\ r.pl[a].attack_power = players[a].attack_power

\* a record that bought health tier 8 at level 7 has killed: the purchase's
\* max_health stays and both tiers are the lower level of what experience is left
PurchasedTierOverwritten ==
    /\ result = [op |-> "process_attack", err |-> "Ok"]
    /\ \E a \in Players :
         /\ players[a].kills = 31
         /\ players[a].max_health = 110
         /\ players[a].health_level = calc_level(players[a].xp)
         /\ players[a].attack_level = calc_level(players[a].xp)
         /\ players[a].health_level < 7

\* C25: death and respawn compound the max-health talent: every successful
\* respawn of a record with slot-1 rank r >= 1 leaves max_health strictly
\* greater than before, equal to floor(max_health x (10000 + bps(r)) / 10000),
\* so that k cycles apply that map k times.
RespawnCompounds ==
    [][\A p \in Players :
          (/\ result'.op = "respawn_player"
           /\ result'.err = "Ok"
           /\ ~players[p].is_alive
           /\ players'[p].is_alive
           /\ Rank(p, 1) >= 1) =>
              /\ players'[p].max_health > players[p].max_health
              /\ players'[p].max_health = EffectiveMaxHealth(p)]_vars

\* the slots of the tree a slot belongs to
TreeOf(s) == (5 * (s \div 5))..(5 * (s \div 5) + 4)

\* C26: in every reachable state a talent slot with a non-zero rank that has
\* a predecessor (area-damage chain 15 -> 16 -> 19 -> 18 -> 17 included) has a
\* predecessor of rank >= 1, and so a non-zero capstone has all four earlier
\* slots of its tree non-zero.
PrerequisiteClosure ==
    \A p \in Players :
        /\ \A s \in 0..24 :
              (Rank(p, s) # 0 /\ PredecessorOf[s + 1] # -1)
                 => Rank(p, PredecessorOf[s + 1]) >= 1
        /\ \A c \in {4, 9, 14, 17, 24} :
              Rank(p, c) # 0 => \A s \in TreeOf(c) : Rank(p, s) # 0

\* the area-damage chain has been followed out of slot order: slots 15, 16,
\* 19 and 18 are taken, the capstone 17 is not
AreaChainFollowed ==
    /\ result = [op |-> "allocate_talent", err |-> "Ok"]
    /\ \E p \in Players :
         /\ Rank(p, 15) = 1 /\ Rank(p, 16) = 1
         /\ Rank(p, 19) = 1 /\ Rank(p, 18) = 1
         /\ Rank(p, 17) = 0

\* a record that was dead before the step and is alive after it
Revived(p) == players[p].initialized /\ ~players[p].is_alive /\ players'[p].is_alive

\* C27: every step in which a record goes from dead to alive, by any
\* operation, happens at a clock reading >= the respawn_at set at its death.
CooldownNeverBypassed ==
    [][\A p \in Players : Revived(p) => now >= players[p].respawn_at]_vars

\* C27, amended: a record goes from dead to alive either by respawn_player, at
\* a clock reading >= the respawn_at set at its death, or by reset_player,
\* which makes it the registration record whatever the clock reads.
CooldownBypassedOnlyByReset ==
    [][\A p \in Players :
          Revived(p) =>
              \/ /\ result'.op = "respawn_player"
                 /\ now >= players[p].respawn_at
                 /\ players[p].respawn_at > 0
              \/ /\ result'.op = "reset_player"
                 /\ players'[p] = RegistrationDefaults(players[p].wallet)]_vars

\* a record killed at the start has respawned once its five seconds had passed
RespawnedAfterCooldown ==
    /\ result = [op |-> "respawn_player", err |-> "Ok"]
    /\ now = StartClock + RESPAWN_DELAY_SECS
    /\ \E p \in Players :
         /\ players[p].deaths = 1 /\ players[p].xp = 5
         /\ players[p].is_alive /\ players[p].health = 100
         /\ players[p].respawn_at = 0

RECURSIVE SumOver(_, _)
SumOver(ps, count) ==
    IF ps = {} THEN 0
    ELSE LET p == CHOOSE q \in ps : TRUE
         IN count[p] + SumOver(ps \ {p}, count)

KillsOf == [p \in Players |-> players[p].kills]
DeathsOf == [p \in Players |-> players[p].deaths]

\* the arena's count is the sum of the records' kills and of their deaths
KillsConserved ==
    /\ arena.total_kills = SumOver(Players, KillsOf)
    /\ arena.total_kills = SumOver(Players, DeathsOf)

\* C28: the arena's total_kills never decreases, and from a fresh arena and
\* fresh records, as long as reset_player is not called, total_kills equals
\* the sum of the records' kills and the sum of the records' deaths: it does
\* at the start of every run, whose history calls no reset_player, and every
\* step other than a reset_player keeps it so.
KillAccounting ==
    /\ KillsConserved
    /\ [][arena'.total_kills >= arena.total_kills]_vars
    /\ [][(KillsConserved /\ result'.op # "reset_player") => KillsConserved']_vars

\* the 521st kill has been counted by the arena, the killer and the victim
KillCounted ==
    /\ result = [op |-> "process_attack", err |-> "Ok"]
    /\ arena.total_kills = 521
    /\ KillsConserved
    /\ \E v \in Players : ~players[v].is_alive /\ players[v].deaths = 261

====
